---- MODULE Spec2Model ----
(***************************************************************************)
(* The omnibox of the Markdown viewer: the handler of a submitted input    *)
(* (Omnibox.on_input_submitted), the command split, the alias table and    *)
(* the command handlers of textual_markdown_viewer/widgets/omnibox.py.     *)
(*                                                                         *)
(* A text is a sequence of one-character strings.  is_likely_url and the   *)
(* filesystem are outside the widget: their answers for a submission are   *)
(* inputs of the Submit action.                                            *)
(***************************************************************************)
EXTENDS Naturals, Sequences, FiniteSets, TLC

VARIABLES
    value,      \* Input.value, the text shown in the omnibox
    posted,     \* the messages post_message was given while handling the last submit event
    stopped,    \* whether event.stop() was called on the last submit event
    called,     \* the command_* handlers the last submit event invoked, with their argument
    event,      \* the last submit event: the stripped text and the answers of the collaborators
    visiting,   \* Omnibox.visiting, the location that is being visited
    placeholder,\* Input.placeholder
    pc          \* "ready": nothing submitted yet, "done": the handler returned, "raised": it raised

vars == <<value, posted, stopped, called, event, visiting, placeholder, pc>>

\* Length up to which every text over ShortAlphabet is submitted.
MaxLen == 2

-----------------------------------------------------------------------------
(* str methods *)

\* The characters str.strip() and str.split(None) take as whitespace.
Whitespace == {" ", "\t"}

UpperCase == <<"A", "B", "C", "D", "E", "F", "G", "H", "I", "J", "K", "L", "M",
               "N", "O", "P", "Q", "R", "S", "T", "U", "V", "W", "X", "Y", "Z">>
LowerCase == <<"a", "b", "c", "d", "e", "f", "g", "h", "i", "j", "k", "l", "m",
               "n", "o", "p", "q", "r", "s", "t", "u", "v", "w", "x", "y", "z">>

lower_char(c) ==
    IF \E i \in 1..Len(UpperCase) : UpperCase[i] = c
    THEN LowerCase[CHOOSE i \in 1..Len(UpperCase) : UpperCase[i] = c]
    ELSE c

\* str.lower(): every character of the text, not only its first token.
lower(s) == [i \in 1..Len(s) |-> lower_char(s[i])]

RECURSIVE lstrip(_)
lstrip(s) ==
    IF s # <<>> /\ Head(s) \in Whitespace THEN lstrip(Tail(s)) ELSE s

RECURSIVE rstrip(_)
rstrip(s) ==
    IF s # <<>> /\ s[Len(s)] \in Whitespace THEN rstrip(SubSeq(s, 1, Len(s) - 1)) ELSE s

\* str.strip()
strip(s) == rstrip(lstrip(s))

\* The length of the longest prefix of s without whitespace.
RECURSIVE token_len(_)
token_len(s) ==
    IF s = <<>> \/ Head(s) \in Whitespace THEN 0 ELSE 1 + token_len(Tail(s))

\* str.split(None, 1): no item for a text of whitespace only, else the first
\* token and, when something other than whitespace follows it, the rest from
\* its first non-whitespace character on (trailing whitespace kept).
split(s) ==
    LET t == lstrip(s)
        n == token_len(t)
        rest == lstrip(SubSeq(t, n + 1, Len(t)))
    IN  IF t = <<>> THEN <<>>
        ELSE IF rest = <<>> THEN <<SubSeq(t, 1, n)>>
        ELSE <<SubSeq(t, 1, n), rest>>

-----------------------------------------------------------------------------
(* pathlib.Path on a POSIX system *)

\* The components of s between the "/" characters.
RECURSIVE components(_)
components(s) ==
    IF \A i \in 1..Len(s) : s[i] # "/" THEN <<s>>
    ELSE LET k == CHOOSE i \in 1..Len(s) : s[i] = "/" /\ \A j \in 1..(i - 1) : s[j] # "/"
         IN  <<SubSeq(s, 1, k - 1)>> \o components(SubSeq(s, k + 1, Len(s)))

RECURSIVE join(_)
join(parts) ==
    IF parts = <<>> THEN <<>>
    ELSE IF Len(parts) = 1 THEN parts[1]
    ELSE parts[1] \o <<"/">> \o join(Tail(parts))

\* Path(s), given by its string form str(Path(s)): empty and "." components
\* are dropped, the root is "/" (or "//" for exactly two leading slashes), and
\* the path without root and components is ".".  Two Path values are equal
\* exactly when these strings are.
Path(s) ==
    LET root == IF Len(s) >= 1 /\ s[1] = "/"
                THEN IF Len(s) >= 2 /\ s[2] = "/" /\ ~(Len(s) >= 3 /\ s[3] = "/")
                     THEN <<"/", "/">> ELSE <<"/">>
                ELSE <<>>
        parts == SelectSeq(components(s), LAMBDA p : p # <<>> /\ p # <<".">>)
    IN  IF root = <<>> /\ parts = <<>> THEN <<".">> ELSE root \o join(parts)

\* httpx.URL(s): a value of a library outside the repository, kept as the
\* text it was built from.
URL(s) == <<"URL", s>>

-----------------------------------------------------------------------------
(* The messages of the widget *)

RemoteViewCommand(url) == [type |-> "RemoteViewCommand", url |-> url]
LocalViewCommand(path) == [type |-> "LocalViewCommand", path |-> path]
LocalChdirCommand(target) == [type |-> "LocalChdirCommand", target |-> target]
ContentsCommand == [type |-> "ContentsCommand"]
LocalFilesCommand == [type |-> "LocalFilesCommand"]
QuitCommand == [type |-> "QuitCommand"]
HistoryCommand == [type |-> "HistoryCommand"]
AboutCommand == [type |-> "AboutCommand"]

-----------------------------------------------------------------------------
(* Commands and aliases *)

about == <<"a", "b", "o", "u", "t">>
contents == <<"c", "o", "n", "t", "e", "n", "t", "s">>
chdir == <<"c", "h", "d", "i", "r">>
history == <<"h", "i", "s", "t", "o", "r", "y">>
local == <<"l", "o", "c", "a", "l">>
quit == <<"q", "u", "i", "t">>

_ALIASES ==
    (<<"a">> :> about) @@ (<<"c">> :> contents) @@ (<<"c", "d">> :> chdir) @@ (<<"h">> :> history) @@
    (<<"l">> :> local) @@ (<<"t", "o", "c">> :> contents) @@ (<<"q">> :> quit)

\* dict.get(key, default)
get(d, key, default) == IF key \in DOMAIN d THEN d[key] ELSE default

\* The names n for which the widget has a method command_<n>.
Commands == {contents, local, quit, history, about, chdir}

\* getattr(self, f"command_{name}", None) is not None
has_command(name) == name \in Commands

command_contents(arg) == ContentsCommand
command_local(arg) == LocalFilesCommand
command_quit(arg) == QuitCommand

\* A variant of command_history that posts the message of another command.
command_history_about(arg) == AboutCommand

command_history(arg) == HistoryCommand
command_about(arg) == AboutCommand
command_chdir(target) == LocalChdirCommand(Path(target))

\* getattr(self, f"command_{name}")(arguments): the message the method posts.
command(name, arguments) ==
    CASE name = contents -> command_contents(arguments)
      [] name = local -> command_local(arguments)
      [] name = quit -> command_quit(arguments)
      [] name = history -> command_history(arguments)
      [] name = about -> command_about(arguments)
      [] name = chdir -> command_chdir(arguments)

_split_command(v) ==
    LET cmd == split(v)
    IN  IF Len(cmd) = 1 THEN cmd \o <<<<>>>> ELSE cmd

\* "command, *_ = self._split_command(value)" needs at least one item:
\* it raises ValueError when the split has none.
_is_command_raises(v) == Len(_split_command(v)) < 1

\* A variant of _is_command that looks the token up without the alias table.
_is_command_no_alias(v) ==
    LET cmd == _split_command(v)[1]
    IN  has_command(cmd)

_is_command(v) ==
    LET cmd == _split_command(v)[1]
    IN  has_command(get(_ALIASES, cmd, cmd))

\* The handler _execute_command calls, the argument it hands over and the
\* message the handler posts.
_execute_command(cmdline) ==
    LET parts == _split_command(cmdline)
        name == get(_ALIASES, parts[1], parts[1])
        arguments == strip(parts[2])
    IN  [name |-> name, argument |-> arguments, message |-> command(name, arguments)]

-----------------------------------------------------------------------------
(* Omnibox.on_input_submitted *)

\* The answers of the filesystem for a path: it does not exist, or it is a
\* regular file, a directory or something else.  "." and the root are never
\* a file or something else.
ProbeAnswers(path) ==
    IF path \in {<<".">>, <<"/">>, <<"/", "/">>}
    THEN {"missing", "dir"}
    ELSE {"missing", "file", "dir", "other"}

\* A variant of branch that asks the filesystem before is_likely_url.
branch_probe_first(submitted, urlLikely, probe) ==
    IF probe # "missing"
    THEN IF probe = "file" THEN "file"
         ELSE IF probe = "dir" THEN "dir"
         ELSE "other"
    ELSE IF urlLikely THEN "remote"
    ELSE IF _is_command_raises(lower(submitted)) THEN "raise"
    ELSE IF _is_command(lower(submitted)) THEN "command"
    ELSE "else"

\* A variant of branch that looks for a command before asking the filesystem.
branch_command_first(submitted, urlLikely, probe) ==
    IF urlLikely THEN "remote"
    ELSE IF _is_command_raises(lower(submitted)) THEN "raise"
    ELSE IF _is_command(lower(submitted)) THEN "command"
    ELSE IF probe # "missing"
         THEN IF probe = "file" THEN "file"
              ELSE IF probe = "dir" THEN "dir"
              ELSE "other"
    ELSE "else"

\* The arm of the if/elif chain that handles the stripped text.
branch(submitted, urlLikely, probe) ==
    IF urlLikely THEN "remote"
    ELSE IF probe # "missing"
         THEN IF probe = "file" THEN "file"
              ELSE IF probe = "dir" THEN "dir"
              ELSE "other"
    ELSE IF _is_command_raises(lower(submitted)) THEN "raise"
    ELSE IF _is_command(lower(submitted)) THEN "command"
    ELSE "else"

\* What each arm leaves behind; self.value is already "" when the arm runs.
remote_arm(submitted) ==
    [value |-> <<>>, posted |-> <<RemoteViewCommand(URL(submitted))>>,
     called |-> <<>>, stopped |-> TRUE, pc |-> "done"]

\* A variant of file_arm that shows the text as it was typed.
file_arm_as_typed(submitted) ==
    [value |-> submitted, posted |-> <<LocalViewCommand(Path(submitted))>>,
     called |-> <<>>, stopped |-> TRUE, pc |-> "done"]

file_arm(submitted) ==
    [value |-> Path(submitted), posted |-> <<LocalViewCommand(Path(submitted))>>,
     called |-> <<>>, stopped |-> TRUE, pc |-> "done"]

dir_arm(submitted) ==
    [value |-> <<>>, posted |-> <<LocalChdirCommand(Path(submitted))>>,
     called |-> <<>>, stopped |-> TRUE, pc |-> "done"]

\* The early return: nothing is posted and event.stop() is not reached.
other_arm(submitted) ==
    [value |-> <<>>, posted |-> <<>>, called |-> <<>>, stopped |-> FALSE, pc |-> "done"]

\* _is_command raised: the handler ends there.
raise_arm(submitted) ==
    [value |-> <<>>, posted |-> <<>>, called |-> <<>>, stopped |-> FALSE, pc |-> "raised"]

\* The command is the lowercased text: command := submitted.lower().
command_arm(submitted) ==
    LET run == _execute_command(lower(submitted))
    IN  [value |-> <<>>, posted |-> <<run.message>>,
         called |-> <<[name |-> run.name, argument |-> run.argument]>>,
         stopped |-> TRUE, pc |-> "done"]

\* A variant of else_arm that does not put the text back.
else_arm_cleared(submitted) ==
    [value |-> <<>>, posted |-> <<LocalViewCommand(Path(submitted))>>,
     called |-> <<>>, stopped |-> TRUE, pc |-> "done"]

else_arm(submitted) ==
    [value |-> submitted, posted |-> <<LocalViewCommand(Path(submitted))>>,
     called |-> <<>>, stopped |-> TRUE, pc |-> "done"]

\* The handler on the input value v, given the answers of is_likely_url and
\* of the filesystem for the stripped text.
on_input_submitted(v, urlLikely, probe) ==
    LET submitted == strip(v)
        arm == branch(submitted, urlLikely, probe)
    IN  CASE arm = "remote" -> remote_arm(submitted)
          [] arm = "file" -> file_arm(submitted)
          [] arm = "dir" -> dir_arm(submitted)
          [] arm = "other" -> other_arm(submitted)
          [] arm = "raise" -> raise_arm(submitted)
          [] arm = "command" -> command_arm(submitted)
          [] arm = "else" -> else_arm(submitted)

-----------------------------------------------------------------------------
(* The texts submitted *)

ShortAlphabet == {"q", "Q", "c", "d", "x", " ", "/", "."}

ShortTexts == UNION {[1..n -> ShortAlphabet] : n \in 0..MaxLen}

Tokens ==
    DOMAIN _ALIASES \cup Commands \cup
    {<<"Q">>, <<"C", "D">>, <<"Q", "u", "i", "t">>, <<"t", "O", "C">>, <<"x">>, <<"q", "q">>, <<".", "/", "a">>, <<"a", "/", "/", "b">>, <<"/", "T", "m", "p">>}

Tails == {<<>>, <<"x">>, <<"/", "T", "m", "p">>, <<"X", " ", " ", "y">>, <<".", "/", "d", "/">>}

Leads == {<<>>, <<" ">>}
Separators == {<<" ">>, <<"\t", " ">>}
Trails == {<<>>, <<"\t">>}

PaddedTexts ==
    {lead \o tok \o (IF tail = <<>> THEN <<>> ELSE sep \o tail) \o trail :
        lead \in Leads, tok \in Tokens, sep \in Separators, tail \in Tails, trail \in Trails}

Texts == ShortTexts \cup PaddedTexts

\* The locations the application shows and writes to Omnibox.visiting.
Locations == {<<>>, <<"a", "/", "/", "b">>, <<"/", "T", "m", "p">>}

DefaultPlaceholder == <<"Enter a location or command">>

-----------------------------------------------------------------------------
(* The state machine *)

NoEvent == [submitted |-> <<>>, urlLikely |-> FALSE, probe |-> "missing"]

Init ==
    /\ value \in Texts
    /\ visiting = <<>>
    /\ placeholder = DefaultPlaceholder
    /\ posted = <<>>
    /\ stopped = FALSE
    /\ called = <<>>
    /\ event = NoEvent
    /\ pc = "ready"

\* The user submits the input; an exception of the handler ends the application.
Submit(urlLikely, probe) ==
    /\ pc # "raised"
    /\ probe \in ProbeAnswers(Path(strip(value)))
    /\ LET after == on_input_submitted(value, urlLikely, probe)
       IN  /\ value' = after.value
           /\ posted' = after.posted
           /\ stopped' = after.stopped
           /\ called' = after.called
           /\ pc' = after.pc
    /\ event' = [submitted |-> strip(value), urlLikely |-> urlLikely, probe |-> probe]
    /\ UNCHANGED <<visiting, placeholder>>

\* The application sets Omnibox.visiting to another location: watch_visiting.
\* No submit event is being handled afterwards.
watch_visiting(location) ==
    /\ pc # "raised"
    /\ location # visiting
    /\ visiting' = location
    /\ placeholder' = IF location # <<>> THEN location ELSE DefaultPlaceholder
    /\ value' = IF location # <<>> THEN location ELSE value
    /\ posted' = <<>>
    /\ stopped' = FALSE
    /\ called' = <<>>
    /\ event' = NoEvent
    /\ pc' = "ready"

Next ==
    \/ \E urlLikely \in BOOLEAN, probe \in {"missing", "file", "dir", "other"} :
           Submit(urlLikely, probe)
    \/ \E location \in Locations : watch_visiting(location)

Spec == Init /\ [][Next]_vars

-----------------------------------------------------------------------------
(* Properties *)

\* A submit event has been handled, and the state is the one the handler left.
Handled == pc \in {"done", "raised"}

\* The text of the last submit event has a first token.
HasToken == split(event.submitted) # <<>>

\* The first token of the text as typed, and what follows it.
TypedToken == _split_command(event.submitted)[1]
TypedTail == _split_command(event.submitted)[2]

\* The first token of the text is, in lower case, a command or an alias.
TokenIsCommand ==
    HasToken /\ get(_ALIASES, lower(TypedToken), lower(TypedToken)) \in Commands

\* The message the specification gives for each canonical command.
NotificationOf(name, argument) ==
    CASE name = about -> AboutCommand
      [] name = contents -> ContentsCommand
      [] name = history -> HistoryCommand
      [] name = local -> LocalFilesCommand
      [] name = quit -> QuitCommand
      [] name = chdir -> LocalChdirCommand(Path(argument))

\* C1: whenever is_likely_url answered true for the submitted text, the handler
\* posted exactly one message, the RemoteViewCommand of the URL built from that
\* text, whatever the filesystem answered and whether or not the first token
\* is a command or an alias.
C1_UrlHasPriority ==
    (Handled /\ event.urlLikely) =>
        /\ pc = "done"
        /\ posted = <<RemoteViewCommand(URL(event.submitted))>>
        /\ called = <<>>

\* C1 witness: a URL-like text that also exists as a directory and whose
\* first token is a command went to the remote view.
C1_Witness ==
    /\ pc = "done" /\ event.urlLikely /\ event.probe = "dir" /\ TokenIsCommand
    /\ posted = <<RemoteViewCommand(URL(event.submitted))>>

\* C2: a text "<alias> x" that is not URL-like and does not exist invokes the
\* same handler with the same argument and posts the same message as the
\* handler does on "<canonical> x", x being the tail of the typed text.
C2_AliasLikeCanonical ==
    (pc = "done" /\ ~event.urlLikely /\ event.probe = "missing"
        /\ HasToken /\ TypedToken \in DOMAIN _ALIASES) =>
        LET canonical == _ALIASES[TypedToken] \o <<" ">> \o TypedTail
            same == on_input_submitted(canonical, FALSE, "missing")
        IN  /\ called # <<>>
            /\ called = same.called
            /\ posted = same.posted
            /\ value = same.value

\* C2 witness: the alias toc with a tail was dispatched to contents.
C2_Witness ==
    /\ pc = "done" /\ ~event.urlLikely /\ event.probe = "missing"
    /\ HasToken /\ TypedToken = <<"t", "o", "c">> /\ TypedTail # <<>>
    /\ called = <<[name |-> contents, argument |-> lower(strip(TypedTail))]>>

\* C3: the argument handed to a command handler is the rest of the text as
\* typed, in its original letter case, with the surrounding whitespace removed.
C3_ArgumentKeepsCase ==
    (pc = "done" /\ called # <<>>) =>
        called[1].argument = strip(TypedTail)

\* C4: a text that is not URL-like, does not exist and whose first token is,
\* in lower case and after alias resolution, no command makes the handler post
\* exactly LocalViewCommand of the path built from the stripped text, and the
\* input shows that stripped text afterwards.
C4_UnresolvedFilename ==
    (Handled /\ ~event.urlLikely /\ event.probe = "missing"
        /\ HasToken /\ ~TokenIsCommand) =>
        /\ pc = "done"
        /\ posted = <<LocalViewCommand(Path(event.submitted))>>
        /\ value = event.submitted

\* C4 witness: such a text whose path form differs from the text was put back
\* as typed.
C4_Witness ==
    /\ pc = "done" /\ ~event.urlLikely /\ event.probe = "missing"
    /\ HasToken /\ ~TokenIsCommand
    /\ Path(event.submitted) # event.submitted
    /\ value = event.submitted /\ Len(posted) = 1

\* C5 as claimed: for a text that is not URL-like and names a regular file the
\* input shows exactly the submitted text afterwards.
C5_ShowsTextAsTyped ==
    (pc = "done" /\ ~event.urlLikely /\ event.probe = "file") =>
        /\ posted = <<LocalViewCommand(Path(event.submitted))>>
        /\ value = event.submitted

\* C5 as amended: for a text that is not URL-like and names a regular file the
\* handler posts exactly LocalViewCommand of the path built from the text, and
\* the input shows str(path): the text without its empty and "." components,
\* so "./a" is shown as "a" and a text already in that form is shown as typed.
C5_ShowsPathString ==
    (Handled /\ ~event.urlLikely /\ event.probe = "file") =>
        /\ pc = "done"
        /\ posted = <<LocalViewCommand(Path(event.submitted))>>
        /\ value = Path(event.submitted)
        /\ event.submitted = <<".", "/", "a">> => value = <<"a">>
        /\ event.submitted = <<"a", "/", "/", "b">> => value = <<"a", "/", "b">>
        /\ event.submitted = <<"/", "T", "m", "p">> => value = event.submitted

\* C5 witness: a regular file given as "./a" is shown as "a".
C5_Witness ==
    /\ pc = "done" /\ ~event.urlLikely /\ event.probe = "file"
    /\ event.submitted = <<".", "/", "a">> /\ value = <<"a">>

\* C6: every handled submission posted exactly one message, except that a text
\* naming something that is neither file nor directory posted none and left
\* the input empty; a command posted the one message of its handler.
C6_ExactlyOneMessage ==
    Handled =>
        IF ~event.urlLikely /\ event.probe = "other"
        THEN posted = <<>> /\ value = <<>>
        ELSE /\ Len(posted) = 1
             /\ called # <<>> =>
                    posted = <<NotificationOf(called[1].name, called[1].argument)>>

\* C7: after a handled submission the event is stopped exactly when the text
\* did not name something that is neither file nor directory.
C7_StoppedUnlessOther ==
    Handled => (stopped <=> ~(~event.urlLikely /\ event.probe = "other"))

\* C8: a dispatched command invokes one handler, that of the canonical name of
\* the first token of the dispatched command line, and posts that command's
\* message and nothing else; chdir's target is the path built from the
\* stripped tail of the dispatched command line.
C8_DispatchPostsOwnMessage ==
    (pc = "done" /\ called # <<>>) =>
        LET parts == _split_command(lower(event.submitted))
            name == get(_ALIASES, parts[1], parts[1])
        IN  /\ Len(called) = 1
            /\ called[1].name = name
            /\ called[1].argument = strip(parts[2])
            /\ posted = <<NotificationOf(name, strip(parts[2]))>>

\* C8 witness: "history" with a tail was dispatched and posted HistoryCommand.
C8_Witness ==
    /\ pc = "done" /\ called # <<>> /\ called[1].name = history
    /\ called[1].argument # <<>>
    /\ posted = <<HistoryCommand>>

\* C9: a text that is not URL-like and exists is handled as file, directory or
\* other and invokes no command handler, also when it or its first token is a
\* command or an alias; a handler is invoked only for a text that does not exist.
C9_FilesystemBeforeCommand ==
    /\ (Handled /\ ~event.urlLikely /\ event.probe # "missing") =>
          /\ pc = "done"
          /\ called = <<>>
          /\ posted = CASE event.probe = "file" -> <<LocalViewCommand(Path(event.submitted))>>
                        [] event.probe = "dir" -> <<LocalChdirCommand(Path(event.submitted))>>
                        [] event.probe = "other" -> <<>>
    /\ called # <<>> => (~event.urlLikely /\ event.probe = "missing")

\* C9 witness: the text "q" named a directory and was not taken as quit.
C9_Witness ==
    /\ pc = "done" /\ ~event.urlLikely /\ event.probe = "dir"
    /\ event.submitted = <<"q">> /\ called = <<>>
    /\ posted = <<LocalChdirCommand(<<"q">>)>>

\* C10: the handler never raises, whatever the text and whatever the
\* filesystem answers.
C10_NeverRaises == pc # "raised"

====
